---- MODULE Spec2Model ----
(***************************************************************************)
(* Vwap (Vegan Recipe Swap): the data model of src/backend/models.py.      *)
(*                                                                         *)
(* The module models the four mapped classes (User, Recipe, Review,        *)
(* RecipeSwap) as rows of a relational store, the unit-of-work operations  *)
(* the mapping declares (insert, attribute update, delete with the         *)
(* declared cascades, the NOT NULL and UNIQUE constraints), the JSON       *)
(* column accessors (json.dumps / json.loads on a text column), the        *)
(* average_rating property and the to_dict projections.                    *)
(*                                                                         *)
(* Nullable columns are [null |-> TRUE] or a record carrying the value;    *)
(* a call's outcome is [err |-> "none", val |-> v] or [err |-> <name of    *)
(* the exception raised>].                                                 *)
(***************************************************************************)
EXTENDS Integers, Sequences, FiniteSets, TLC

(***************************************************************************)
(* Bounds of the model.                                                    *)
(***************************************************************************)
MaxUsers == 3
MaxRecipes == 1
MaxReviews == 2
MaxSwaps == 1
MaxStr == 1      \* characters of a string inside an encoded value
MaxLen == 2      \* items of an encoded list
MaxKeys == 1     \* entries of an encoded mapping
MaxSum == 12     \* rating_sum of the Recipe object read
MaxCount == 4    \* rating_count of the Recipe object read

VARIABLES
    users,      \* rows of table users
    recipes,    \* rows of table recipes
    reviews,    \* rows of table reviews
    swaps,      \* rows of table recipe_swaps
    nextId,     \* the next primary key of each table
    lastOp,     \* the last unit of work committed or rolled back, and its outcome
    field,      \* the encoded column under test
    column,     \* its stored text
    jarg,       \* the list or mapping the caller passes to its setter
    jhist,      \* how the stored text came about: "unset", "set" or "raw"
    ret,        \* the outcome of the getter since the last write
    robj,       \* a Recipe object's rating_sum and rating_count
    ravg,       \* the outcome of reading its average_rating
    view        \* the last to_dict call and its outcome

storeVars == <<users, recipes, reviews, swaps, nextId, lastOp>>
jsonVars == <<field, column, jarg, jhist, ret>>
ratingVars == <<robj, ravg>>
vars == <<users, recipes, reviews, swaps, nextId, lastOp,
          field, column, jarg, jhist, ret, robj, ravg, view>>

(***************************************************************************)
(* Nullable column values.                                                 *)
(***************************************************************************)
NullInt == [null |-> TRUE]
IntVal(n) == [null |-> FALSE, n |-> n]
NullText == [null |-> TRUE]
TextVal(s) == [null |-> FALSE, s |-> s]
NullTime == [null |-> TRUE]
TimeVal(t) == [null |-> FALSE, at |-> t]

(***************************************************************************)
(* Outcomes of a call: a returned value or a raised exception.             *)
(***************************************************************************)
Ok(v) == [err |-> "none", val |-> v]
Raise(e) == [err |-> e]

(***************************************************************************)
(* JSON values, and text as a sequence of one-character strings.           *)
(***************************************************************************)
JInt(n) == [t |-> "int", n |-> n]
JStr(s) == [t |-> "str", s |-> s]
JList(items) == [t |-> "list", items |-> items]
\* a mapping in insertion order: a sequence of <<key, value>>, the keys distinct
JDict(entries) == [t |-> "dict", entries |-> entries]

Digits == <<"0", "1", "2", "3", "4", "5", "6", "7", "8", "9">>
IsDigit(c) == \E d \in 1..10 : Digits[d] = c
DigitVal(c) == (CHOOSE d \in 1..10 : Digits[d] = c) - 1

RECURSIVE NatToChars(_)
NatToChars(n) ==
    IF n < 10 THEN <<Digits[n + 1]>>
    ELSE NatToChars(n \div 10) \o <<Digits[(n % 10) + 1]>>

IntToChars(n) == IF n < 0 THEN <<"-">> \o NatToChars(0 - n) ELSE NatToChars(n)

\* json.dumps of a str, between the quotes: '"' and '\' are escaped
RECURSIVE EscapeChars(_)
EscapeChars(s) ==
    IF s = <<>> THEN <<>>
    ELSE (IF Head(s) \in {"\"", "\\"} THEN <<"\\", Head(s)>> ELSE <<Head(s)>>)
         \o EscapeChars(Tail(s))

DumpsStr(s) == <<"\"">> \o EscapeChars(s) \o <<"\"">>

\* json.dumps of a mapping's key: a str as it is, an int as its decimal text
DumpsKey(k) == IF k.t = "int" THEN DumpsStr(IntToChars(k.n)) ELSE DumpsStr(k.s)

RECURSIVE json_dumps(_)
RECURSIVE DumpsItems(_)
RECURSIVE DumpsEntries(_)

\* ', '.join of the items' texts
DumpsItems(items) ==
    IF items = <<>> THEN <<>>
    ELSE json_dumps(Head(items))
         \o (IF Tail(items) = <<>> THEN <<>> ELSE <<",", " ">> \o DumpsItems(Tail(items)))

\* ', '.join of key ': ' value
DumpsEntries(entries) ==
    IF entries = <<>> THEN <<>>
    ELSE DumpsKey(Head(entries)[1]) \o <<":", " ">> \o json_dumps(Head(entries)[2])
         \o (IF Tail(entries) = <<>> THEN <<>> ELSE <<",", " ">> \o DumpsEntries(Tail(entries)))

\* json.dumps(v) with the default separators
json_dumps(v) ==
    CASE v.t = "int" -> IntToChars(v.n)
      [] v.t = "str" -> DumpsStr(v.s)
      [] v.t = "list" -> <<"[">> \o DumpsItems(v.items) \o <<"]">>
      [] v.t = "dict" -> <<"{">> \o DumpsEntries(v.entries) \o <<"}">>

\* A parse step's result: the value read and the position after it, or failure
Parsed(v, pos) == [ok |-> TRUE, val |-> v, pos |-> pos]
ParseFail == [ok |-> FALSE]

CharAt(s, i) == IF i <= Len(s) THEN s[i] ELSE "EOF"

RECURSIVE SkipWs(_, _)
SkipWs(s, i) == IF CharAt(s, i) = " " THEN SkipWs(s, i + 1) ELSE i

\* the digits from position i on: <<value, position after>>
RECURSIVE ScanDigits(_, _, _)
ScanDigits(s, i, acc) ==
    IF IsDigit(CharAt(s, i)) THEN ScanDigits(s, i + 1, 10 * acc + DigitVal(s[i]))
    ELSE <<acc, i>>

\* -?(0|[1-9][0-9]*)
ParseNumber(s, i) ==
    LET neg == CharAt(s, i) = "-"
        j == IF neg THEN i + 1 ELSE i
    IN IF ~ IsDigit(CharAt(s, j)) THEN ParseFail
       ELSE IF s[j] = "0" THEN Parsed(JInt(0), j + 1)
       ELSE LET d == ScanDigits(s, j, 0)
            IN Parsed(JInt(IF neg THEN 0 - d[1] ELSE d[1]), d[2])

\* the characters of a string from position i (after the opening quote) to the
\* closing quote; '\' escapes '"' and '\'
RECURSIVE ScanString(_, _, _)
ScanString(s, i, acc) ==
    LET c == CharAt(s, i)
    IN IF c = "EOF" THEN ParseFail
       ELSE IF c = "\"" THEN Parsed(JStr(acc), i + 1)
       ELSE IF c = "\\"
            THEN IF CharAt(s, i + 1) \in {"\"", "\\"}
                 THEN ScanString(s, i + 2, Append(acc, s[i + 1]))
                 ELSE ParseFail
       ELSE ScanString(s, i + 1, Append(acc, c))

\* a mapping with key k set to v: a key already there keeps its place
RECURSIVE PutEntry(_, _, _)
PutEntry(entries, k, v) ==
    IF entries = <<>> THEN << <<k, v>> >>
    ELSE IF Head(entries)[1] = k THEN << <<k, v>> >> \o Tail(entries)
    ELSE <<Head(entries)>> \o PutEntry(Tail(entries), k, v)

RECURSIVE ParseValue(_, _)
RECURSIVE ParseItems(_, _, _)
RECURSIVE ParseEntries(_, _, _)

\* after '[' or ',': a value, then ',' (more) or ']'
ParseItems(s, i, acc) ==
    LET v == ParseValue(s, SkipWs(s, i))
    IN IF ~ v.ok THEN ParseFail
       ELSE LET j == SkipWs(s, v.pos)
            IN IF CharAt(s, j) = "," THEN ParseItems(s, j + 1, Append(acc, v.val))
               ELSE IF CharAt(s, j) = "]" THEN Parsed(JList(Append(acc, v.val)), j + 1)
               ELSE ParseFail

\* after '{' or ',': "key" ':' value, then ',' (more) or '}'
ParseEntries(s, i, acc) ==
    LET k == SkipWs(s, i)
    IN IF CharAt(s, k) # "\"" THEN ParseFail
       ELSE LET key == ScanString(s, k + 1, <<>>)
            IN IF ~ key.ok THEN ParseFail
               ELSE LET c == SkipWs(s, key.pos)
                    IN IF CharAt(s, c) # ":" THEN ParseFail
                       ELSE LET v == ParseValue(s, SkipWs(s, c + 1))
                            IN IF ~ v.ok THEN ParseFail
                               ELSE LET j == SkipWs(s, v.pos)
                                        more == PutEntry(acc, key.val, v.val)
                                    IN IF CharAt(s, j) = ","
                                       THEN ParseEntries(s, j + 1, more)
                                       ELSE IF CharAt(s, j) = "}"
                                       THEN Parsed(JDict(more), j + 1)
                                       ELSE ParseFail

ParseValue(s, i) ==
    LET c == CharAt(s, i)
    IN CASE c = "\"" -> ScanString(s, i + 1, <<>>)
         [] c = "[" -> IF CharAt(s, SkipWs(s, i + 1)) = "]"
                       THEN Parsed(JList(<<>>), SkipWs(s, i + 1) + 1)
                       ELSE ParseItems(s, i + 1, <<>>)
         [] c = "{" -> IF CharAt(s, SkipWs(s, i + 1)) = "}"
                       THEN Parsed(JDict(<<>>), SkipWs(s, i + 1) + 1)
                       ELSE ParseEntries(s, i + 1, <<>>)
         [] c = "-" \/ IsDigit(c) -> ParseNumber(s, i)
         [] OTHER -> ParseFail

\* json.loads(s): one value between optional blanks, or JSONDecodeError
json_loads(s) ==
    LET v == ParseValue(s, SkipWs(s, 1))
    IN IF v.ok /\ SkipWs(s, v.pos) = Len(s) + 1 THEN Ok(v.val)
       ELSE Raise("JSONDecodeError")

(***************************************************************************)
(* Encoded collection accessors.  The five get_X / set_X pairs of the      *)
(* classes share one body, on the column each names.                       *)
(***************************************************************************)
Fields == {"dietary_preferences", "ingredients", "tags", "nutritional_info",
           "offered_recipe_ids"}

\* what get_X returns without decoding: {} for nutritional_info, [] otherwise
EmptyOf(f) == IF f = "nutritional_info" THEN JDict(<<>>) ELSE JList(<<>>)

\* `if self.X:` on a text column: None and '' are falsy
Truthy(col) == ~ col.null /\ col.s # <<>>

\* get_X: `if self.X: return json.loads(self.X)`, else the empty value
get_encoded(f, col) ==
    IF Truthy(col) THEN json_loads(col.s) ELSE Ok(EmptyOf(f))

\* a mutant: `if value:` before the assignment, an empty value left unstored
set_nonempty(v) ==
    IF v \in {JList(<<>>), JDict(<<>>)} THEN NullText ELSE TextVal(json_dumps(v))

\* set_X: `self.X = json.dumps(value)`
set_encoded(v) == TextVal(json_dumps(v))

get_dietary_preferences(u) == get_encoded("dietary_preferences", u.dietary_preferences)
get_ingredients(r) == get_encoded("ingredients", r.ingredients)
get_tags(r) == get_encoded("tags", r.tags)
get_nutritional_info(r) == get_encoded("nutritional_info", r.nutritional_info)
get_offered_recipe_ids(s) == get_encoded("offered_recipe_ids", s.offered_recipe_ids)

(***************************************************************************)
(* Rating aggregation.  A rating is counted in tenths: 4.0 is 40.          *)
(***************************************************************************)
\* round(s / c, 1) in tenths.  s / c is the double nearest the quotient and
\* round() rounds the double's exact value half to even; for c < 20 a tie in
\* the tenths is a multiple of 1/4, which a double holds exactly, so the
\* result is the quotient's own half-even rounding.
round1(s, c) ==
    LET q == (10 * s) \div c
        r == (10 * s) % c
    IN IF 2 * r < c THEN q
       ELSE IF 2 * r > c THEN q + 1
       ELSE IF q % 2 = 0 THEN q ELSE q + 1

\* Recipe.average_rating: `None == 0` is False, and None / n raises TypeError
average_rating(r) ==
    IF ~ r.rating_count.null /\ r.rating_count.n = 0 THEN Ok(0)
    ELSE IF r.rating_count.null \/ r.rating_sum.null THEN Raise("TypeError")
    ELSE Ok(round1(r.rating_sum.n, r.rating_count.n))

(***************************************************************************)
(* Rows as the INSERT stores them: the columns the model carries, with the *)
(* declared defaults where the caller gives none.                          *)
(***************************************************************************)
UserRow(id, dietary_preferences) ==
    [id |-> id,
     username |-> <<"user", id>>,
     email |-> <<"mail", id>>,
     password_hash |-> <<"hash", id>>,
     dietary_preferences |-> dietary_preferences,
     cooking_level |-> "beginner"]

RecipeRow(id, author_id) ==
    [id |-> id,
     ingredients |-> set_encoded(JList(<<JStr(<<"a">>)>>)),
     tags |-> NullText,
     nutritional_info |-> NullText,
     rating_sum |-> IntVal(0),
     rating_count |-> IntVal(0),
     author_id |-> author_id]

ReviewRow(id, recipe_id, reviewer_id, rating) ==
    [id |-> id,
     rating |-> rating,
     helpful_count |-> 0,
     recipe_id |-> recipe_id,
     reviewer_id |-> reviewer_id]

RecipeSwapRow(id, requester_id, owner_id, recipe_id) ==
    [id |-> id,
     requester_id |-> requester_id,
     owner_id |-> owner_id,
     recipe_id |-> recipe_id,
     offered_recipe_ids |-> NullText,
     status |-> "pending",
     completed_at |-> NullTime]

(***************************************************************************)
(* Inputs of the operations.                                               *)
(***************************************************************************)
\* ratings a caller may pass to Review(rating=...): inside and outside 1..5
RatingInputs == {IntVal(2), IntVal(4), IntVal(6), NullInt}
\* values a caller may assign to RecipeSwap.status: the four documented names
\* and one outside them
StatusNames == {"pending", "accepted", "declined", "completed"}
StatusInputs == StatusNames \cup {"archived"}

UserIds == {u.id : u \in users}
RecipeIds == {r.id : r \in recipes}

(***************************************************************************)
(* Relationships (the collections the mapping declares).                   *)
(***************************************************************************)
User_recipes(uid) == {r \in recipes : r.author_id = uid}
User_reviews(uid) == {v \in reviews : v.reviewer_id = uid}
User_sent_swaps(uid) == {s \in swaps : s.requester_id = uid}
User_received_swaps(uid) == {s \in swaps : s.owner_id = uid}
Recipe_reviews(rid) == {v \in reviews : v.recipe_id = rid}
Recipe_swaps(rid) == {s \in swaps : s.recipe_id = rid}

(***************************************************************************)
(* View projections (to_dict).  A column the model does not carry is       *)
(* projected as Column(<its name>).                                        *)
(***************************************************************************)
Column(name) == <<"column", name>>

\* the exception the first failing call of a sequence raises, or "none"
FirstErr(outs) ==
    IF \A i \in 1..Len(outs) : outs[i].err = "none" THEN "none"
    ELSE outs[CHOOSE i \in 1..Len(outs) :
                /\ outs[i].err # "none"
                /\ \A j \in 1..(i - 1) : outs[j].err = "none"].err

\* the row a foreign key names: <<row>>, or <<>> when the relationship is None
Related(rows, id) ==
    IF \E x \in rows : x.id = id THEN <<CHOOSE x \in rows : x.id = id>> ELSE <<>>

\* data[key] = value when the embedded view is asked for and its row is there
Embed(data, key, wanted, out) == IF wanted THEN data @@ (key :> out.val) ELSE data

\* the dict User.to_dict builds, given the decoded dietary preferences
User_data(u, prefs, include_email) ==
    IF prefs.err # "none" THEN Raise(prefs.err)
    ELSE LET data == [id |-> u.id,
                      username |-> u.username,
                      first_name |-> Column("first_name"),
                      last_name |-> Column("last_name"),
                      bio |-> Column("bio"),
                      profile_picture |-> Column("profile_picture"),
                      dietary_preferences |-> prefs.val,
                      cooking_level |-> u.cooking_level,
                      created_at |-> Column("created_at"),
                      recipe_count |-> Cardinality(User_recipes(u.id))]
         IN IF include_email THEN Ok(data @@ ("email" :> u.email)) ELSE Ok(data)

\* a mutant: the email written whatever the flag
User_to_dict_leaky(u, include_email) ==
    User_data(u, get_dietary_preferences(u), TRUE)

\* User.to_dict(include_email=False)
User_to_dict(u, include_email) ==
    User_data(u, get_dietary_preferences(u), include_email)

\* self.<relationship>.to_dict() for each row of `related` (one or none)
PublicViews(related) == [i \in 1..Len(related) |-> User_to_dict(related[i], FALSE)]

\* the dict Recipe.to_dict builds, given its decoded columns, its average and
\* its author's view
Recipe_data(r, ing, tags, info, avg, withAuthor, author) ==
    LET err == FirstErr(<<ing, tags, info, avg, author>>)
    IN IF err # "none" THEN Raise(err)
       ELSE Ok(Embed([id |-> r.id,
                      title |-> Column("title"),
                      description |-> Column("description"),
                      ingredients |-> ing.val,
                      instructions |-> Column("instructions"),
                      prep_time |-> Column("prep_time"),
                      cook_time |-> Column("cook_time"),
                      total_time |-> Column("total_time"),
                      servings |-> Column("servings"),
                      difficulty |-> Column("difficulty"),
                      category |-> Column("category"),
                      tags |-> tags.val,
                      cuisine_type |-> Column("cuisine_type"),
                      image_url |-> Column("image_url"),
                      video_url |-> Column("video_url"),
                      calories_per_serving |-> Column("calories_per_serving"),
                      nutritional_info |-> info.val,
                      is_public |-> Column("is_public"),
                      is_swappable |-> Column("is_swappable"),
                      average_rating |-> avg.val,
                      rating_count |-> r.rating_count,
                      created_at |-> Column("created_at"),
                      updated_at |-> Column("updated_at")],
                     "author", withAuthor, author))

\* the views of the rows in `related` when wanted, as outcomes: Ok(<<>>) stands
\* for a view not asked for
Wanted(wanted, related) ==
    IF wanted /\ related # <<>> THEN PublicViews(related)[1] ELSE Ok(<<>>)

\* Recipe.to_dict(include_author=True)
Recipe_to_dict(r, include_author) ==
    Recipe_data(r, get_ingredients(r), get_tags(r), get_nutritional_info(r),
                average_rating(r),
                include_author /\ Related(users, r.author_id) # <<>>,
                Wanted(include_author, Related(users, r.author_id)))

\* the dict Review.to_dict builds, given its reviewer's view
Review_data(v, withReviewer, reviewer) ==
    IF reviewer.err # "none" THEN Raise(reviewer.err)
    ELSE Ok(Embed([id |-> v.id,
                   rating |-> v.rating,
                   comment |-> Column("comment"),
                   helpful_count |-> v.helpful_count,
                   created_at |-> Column("created_at"),
                   updated_at |-> Column("updated_at")],
                  "reviewer", withReviewer, reviewer))

\* Review.to_dict(include_reviewer=True)
Review_to_dict(v, include_reviewer) ==
    Review_data(v, include_reviewer /\ Related(users, v.reviewer_id) # <<>>,
                Wanted(include_reviewer, Related(users, v.reviewer_id)))

\* the dict RecipeSwap.to_dict builds, given the decoded offered ids and the
\* embedded views
RecipeSwap_data(s, offered, withRequester, requester, withOwner, owner, withRecipe, recipe) ==
    LET err == FirstErr(<<offered, requester, owner, recipe>>)
    IN IF err # "none" THEN Raise(err)
       ELSE Ok(Embed(Embed(Embed([id |-> s.id,
                                  message |-> Column("message"),
                                  offered_recipe_ids |-> offered.val,
                                  status |-> s.status,
                                  response_message |-> Column("response_message"),
                                  created_at |-> Column("created_at"),
                                  updated_at |-> Column("updated_at"),
                                  completed_at |-> s.completed_at],
                                 "requester", withRequester, requester),
                           "owner", withOwner, owner),
                     "recipe", withRecipe, recipe))

\* self.recipe.to_dict(include_author=False) when wanted and the recipe is there
WantedRecipe(wanted, related) ==
    IF wanted /\ related # <<>> THEN Recipe_to_dict(related[1], FALSE) ELSE Ok(<<>>)

\* RecipeSwap.to_dict(include_users=True, include_recipe=True)
RecipeSwap_to_dict(s, include_users, include_recipe) ==
    RecipeSwap_data(s, get_offered_recipe_ids(s),
                    include_users /\ Related(users, s.requester_id) # <<>>,
                    Wanted(include_users, Related(users, s.requester_id)),
                    include_users /\ Related(users, s.owner_id) # <<>>,
                    Wanted(include_users, Related(users, s.owner_id)),
                    include_recipe /\ Related(recipes, s.recipe_id) # <<>>,
                    WantedRecipe(include_recipe, Related(recipes, s.recipe_id)))

(***************************************************************************)
(* Constraints of table reviews.                                           *)
(***************************************************************************)
\* a mutant: the constraint declared on the primary key instead of the pair
unique_on_id_only(rows, recipe_id, reviewer_id) == TRUE

\* UniqueConstraint('recipe_id', 'reviewer_id'): may a row for the pair be added
unique_recipe_reviewer(rows, recipe_id, reviewer_id) ==
    ~ \E v \in rows : v.recipe_id = recipe_id /\ v.reviewer_id = reviewer_id

Op(op, err, x, y) == [op |-> op, err |-> err, x |-> x, y |-> y]

(***************************************************************************)
(* Unit-of-work operations.                                                *)
(***************************************************************************)
\* session.add(User(...)); commit
CreateUser ==
    /\ nextId.user <= MaxUsers
    /\ users' = users \cup {UserRow(nextId.user, NullText)}
    /\ nextId' = [nextId EXCEPT !.user = @ + 1]
    /\ lastOp' = Op("create_user", "none", 0, 0)
    /\ UNCHANGED <<recipes, reviews, swaps>>
    /\ UNCHANGED <<jsonVars, ratingVars, view>>

\* session.add(Recipe(author_id=author, ...)); commit: the column defaults
\* (rating_sum = 0, rating_count = 0) are applied by the INSERT
CreateRecipe(author) ==
    /\ nextId.recipe <= MaxRecipes
    /\ author \in UserIds
    /\ recipes' = recipes \cup {RecipeRow(nextId.recipe, author)}
    /\ nextId' = [nextId EXCEPT !.recipe = @ + 1]
    /\ lastOp' = Op("create_recipe", "none", 0, 0)
    /\ UNCHANGED <<users, reviews, swaps>>
    /\ UNCHANGED <<jsonVars, ratingVars, view>>

\* session.add(Review(recipe_id, reviewer_id, rating)); commit.  The INSERT
\* fails on rating NULL (nullable=False) and on a second row for the pair
\* (unique_recipe_reviewer); nothing else is checked, and nothing touches the
\* recipe's rating_sum / rating_count.
CreateReview(recipe_id, reviewer_id, rating) ==
    /\ recipe_id \in RecipeIds
    /\ reviewer_id \in UserIds
    /\ IF rating.null \/ ~ unique_recipe_reviewer(reviews, recipe_id, reviewer_id)
       THEN /\ lastOp' = Op("create_review", "IntegrityError", recipe_id, reviewer_id)
            /\ UNCHANGED <<reviews, nextId>>
       ELSE /\ nextId.review <= MaxReviews
            /\ reviews' = reviews \cup {ReviewRow(nextId.review, recipe_id, reviewer_id, rating.n)}
            /\ nextId' = [nextId EXCEPT !.review = @ + 1]
            /\ lastOp' = Op("create_review", "none", recipe_id, reviewer_id)
    /\ UNCHANGED <<users, recipes, swaps>>
    /\ UNCHANGED <<jsonVars, ratingVars, view>>

\* review.rating = rating; commit
UpdateReview(v, rating) ==
    /\ v \in reviews
    /\ IF rating.null
       THEN /\ lastOp' = Op("update_review", "IntegrityError", 0, 0)
            /\ UNCHANGED reviews
       ELSE /\ reviews' = (reviews \ {v}) \cup {[v EXCEPT !.rating = rating.n]}
            /\ lastOp' = Op("update_review", "none", 0, 0)
    /\ UNCHANGED <<users, recipes, swaps, nextId>>
    /\ UNCHANGED <<jsonVars, ratingVars, view>>

\* session.delete(review); commit
DeleteReview(v) ==
    /\ v \in reviews
    /\ reviews' = reviews \ {v}
    /\ lastOp' = Op("delete_review", "none", 0, 0)
    /\ UNCHANGED <<users, recipes, swaps, nextId>>
    /\ UNCHANGED <<jsonVars, ratingVars, view>>

\* session.add(RecipeSwap(requester_id, owner_id, recipe_id)); commit: status
\* takes its default 'pending', completed_at has none and stays NULL
CreateSwap(requester_id, owner_id, recipe_id) ==
    /\ nextId.swap <= MaxSwaps
    /\ requester_id \in UserIds
    /\ owner_id \in UserIds
    /\ recipe_id \in RecipeIds
    /\ swaps' = swaps \cup {RecipeSwapRow(nextId.swap, requester_id, owner_id, recipe_id)}
    /\ nextId' = [nextId EXCEPT !.swap = @ + 1]
    /\ lastOp' = Op("create_swap", "none", 0, 0)
    /\ UNCHANGED <<users, recipes, reviews>>
    /\ UNCHANGED <<jsonVars, ratingVars, view>>

\* swap.status = status; commit: a String(20) column, any value is stored
SetSwapStatus(s, status) ==
    /\ s \in swaps
    /\ swaps' = (swaps \ {s}) \cup {[s EXCEPT !.status = status]}
    /\ lastOp' = Op("set_status", "none", 0, 0)
    /\ UNCHANGED <<users, recipes, reviews, nextId>>
    /\ UNCHANGED <<jsonVars, ratingVars, view>>

\* swap.completed_at = <a time or None>; commit: a nullable DateTime column
SetSwapCompletedAt(s, at) ==
    /\ s \in swaps
    /\ swaps' = (swaps \ {s}) \cup {[s EXCEPT !.completed_at = at]}
    /\ lastOp' = Op("set_completed_at", "none", 0, 0)
    /\ UNCHANGED <<users, recipes, reviews, nextId>>
    /\ UNCHANGED <<jsonVars, ratingVars, view>>

\* session.delete(recipe); commit: reviews and swaps cascade 'all, delete-orphan'
DeleteRecipe(rid) ==
    /\ rid \in RecipeIds
    /\ recipes' = {r \in recipes : r.id # rid}
    /\ reviews' = reviews \ Recipe_reviews(rid)
    /\ swaps' = swaps \ Recipe_swaps(rid)
    /\ lastOp' = Op("delete_recipe", "none", 0, 0)
    /\ UNCHANGED <<users, nextId>>
    /\ UNCHANGED <<jsonVars, ratingVars, view>>

\* session.delete(user); commit.  recipes and reviews cascade (and each
\* recipe's reviews and swaps with it).  sent_swaps and received_swaps declare
\* no cascade: the unit of work sets requester_id / owner_id of every such
\* swap that is not itself being deleted to NULL, which the columns'
\* nullable=False rejects: the flush raises IntegrityError and the
\* transaction is rolled back.
DeleteUser(uid) ==
    /\ uid \in UserIds
    /\ LET goneRecipes == {r.id : r \in User_recipes(uid)}
           goneReviews == User_reviews(uid)
                          \cup UNION {Recipe_reviews(rid) : rid \in goneRecipes}
           goneSwaps == UNION {Recipe_swaps(rid) : rid \in goneRecipes}
           nulled == (User_sent_swaps(uid) \cup User_received_swaps(uid)) \ goneSwaps
       IN IF nulled # {}
          THEN /\ lastOp' = Op("delete_user", "IntegrityError", uid, 0)
               /\ UNCHANGED <<users, recipes, reviews, swaps>>
          ELSE /\ users' = {u \in users : u.id # uid}
               /\ recipes' = {r \in recipes : r.id \notin goneRecipes}
               /\ reviews' = reviews \ goneReviews
               /\ swaps' = swaps \ goneSwaps
               /\ lastOp' = Op("delete_user", "none", uid, 0)
    /\ UNCHANGED nextId
    /\ UNCHANGED <<jsonVars, ratingVars, view>>

(***************************************************************************)
(* Calls on one object: the encoded column accessors, average_rating, and  *)
(* the projections.                                                        *)
(***************************************************************************)
Chars == {"a", "\"", "\\"}
Strs == UNION {[1..n -> Chars] : n \in 0..MaxStr}
IntInputs == {0 - 3, 0, 12}
Atoms == {JStr(x) : x \in Strs} \cup {JInt(n) : n \in IntInputs}
Lists == {JList(l) : l \in UNION {[1..n -> Atoms] : n \in 0..MaxLen}}
Entries == {<<JStr(k), JInt(n)>> : k \in Strs, n \in IntInputs}
Dicts == {JDict(e) : e \in {x \in UNION {[1..n -> Entries] : n \in 0..MaxKeys} :
                              \A i, j \in 1..Len(x) : i # j => x[i][1] # x[j][1]}}
\* the lists and mappings a caller passes to set_X
JsonValues == Lists \cup Dicts

\* text that is no serialization of anything
MalformedTexts == {<<"a">>, <<"[">>, <<"[", "\"", "a", "\"", ",", "]">>, <<"{", "a", "}">>}
\* text found in a column that no setter wrote
RawTexts == {NullText, TextVal(<<>>)} \cup {TextVal(m) : m \in MalformedTexts}
            \cup {TextVal(<<"[", "]">>), TextVal(<<" ", "{", "}">>)}

NoRet == Raise("pending")

\* obj.set_X(jarg)
SetEncoded ==
    /\ column' = set_encoded(jarg)
    /\ jhist' = "set"
    /\ ret' = NoRet
    /\ UNCHANGED <<field, jarg>>
    /\ UNCHANGED <<storeVars, ratingVars, view>>

\* obj.X = text, or a row loaded that holds it
StoreRaw(text) ==
    /\ column' = text
    /\ jhist' = "raw"
    /\ ret' = NoRet
    /\ UNCHANGED <<field, jarg>>
    /\ UNCHANGED <<storeVars, ratingVars, view>>

\* obj.get_X()
GetEncoded ==
    /\ ret = NoRet
    /\ ret' = get_encoded(field, column)
    /\ UNCHANGED <<field, column, jarg, jhist>>
    /\ UNCHANGED <<storeVars, ratingVars, view>>

\* recipe.average_rating
ReadAverage ==
    /\ ravg = NoRet
    /\ ravg' = average_rating(robj)
    /\ UNCHANGED robj
    /\ UNCHANGED <<storeVars, jsonVars, view>>

NoView == [call |-> <<"none", 0, FALSE, FALSE>>, out |-> NoRet]

UserView(u, include_email) ==
    /\ view' = [call |-> <<"user", u.id, include_email, FALSE>>,
             out |-> User_to_dict(u, include_email)]
    /\ UNCHANGED <<storeVars, jsonVars, ratingVars>>

RecipeView(r, include_author) ==
    /\ view' = [call |-> <<"recipe", r.id, include_author, FALSE>>,
             out |-> Recipe_to_dict(r, include_author)]
    /\ UNCHANGED <<storeVars, jsonVars, ratingVars>>

ReviewView(v, include_reviewer) ==
    /\ view' = [call |-> <<"review", v.id, include_reviewer, FALSE>>,
             out |-> Review_to_dict(v, include_reviewer)]
    /\ UNCHANGED <<storeVars, jsonVars, ratingVars>>

RecipeSwapView(s, include_users, include_recipe) ==
    /\ view' = [call |-> <<"swap", s.id, include_users, include_recipe>>,
             out |-> RecipeSwap_to_dict(s, include_users, include_recipe)]
    /\ UNCHANGED <<storeVars, jsonVars, ratingVars>>

(***************************************************************************)
(* Specifications.                                                         *)
(***************************************************************************)
InitStore ==
    /\ users = {}
    /\ recipes = {}
    /\ reviews = {}
    /\ swaps = {}
    /\ nextId = [user |-> 1, recipe |-> 1, review |-> 1, swap |-> 1]
    /\ lastOp = Op("init", "none", 0, 0)

InitJson ==
    /\ field = "ingredients"
    /\ column = NullText
    /\ jarg = EmptyOf("ingredients")
    /\ jhist = "unset"
    /\ ret = NoRet

InitRating ==
    /\ robj = [rating_sum |-> NullInt, rating_count |-> NullInt]
    /\ ravg = NoRet

\* the store from empty: every unit of work
Init == InitStore /\ InitJson /\ InitRating /\ view = NoView

Next ==
    \/ CreateUser
    \/ \E a \in UserIds : CreateRecipe(a)
    \/ \E r \in RecipeIds, u \in UserIds, g \in RatingInputs : CreateReview(r, u, g)
    \/ \E v \in reviews, g \in RatingInputs : UpdateReview(v, g)
    \/ \E v \in reviews : DeleteReview(v)
    \/ \E q \in UserIds, o \in UserIds, r \in RecipeIds : CreateSwap(q, o, r)
    \/ \E s \in swaps, st \in StatusInputs : SetSwapStatus(s, st)
    \/ \E s \in swaps, at \in {NullTime, TimeVal("now")} : SetSwapCompletedAt(s, at)
    \/ \E r \in RecipeIds : DeleteRecipe(r)
    \/ \E u \in UserIds : DeleteUser(u)

Spec == Init /\ [][Next]_vars

\* reviews of a store that holds MaxUsers users and MaxRecipes recipes
InitReview ==
    /\ users = {UserRow(i, NullText) : i \in 1..MaxUsers}
    /\ recipes = {RecipeRow(i, 1) : i \in 1..MaxRecipes}
    /\ reviews = {}
    /\ swaps = {}
    /\ nextId = [user |-> MaxUsers + 1, recipe |-> MaxRecipes + 1, review |-> 1, swap |-> 1]
    /\ lastOp = Op("create_recipe", "none", 0, 0)
    /\ InitJson /\ InitRating /\ view = NoView

NextReview ==
    \/ \E r \in RecipeIds, u \in UserIds, g \in RatingInputs : CreateReview(r, u, g)
    \/ \E v \in reviews, g \in RatingInputs : UpdateReview(v, g)
    \/ \E v \in reviews : DeleteReview(v)

SpecReview == InitReview /\ [][NextReview]_vars

\* one encoded column of a new object, written and read; the caller holds
\* one list or mapping to set
InitEncoded ==
    /\ InitStore /\ InitRating /\ view = NoView
    /\ field \in Fields
    /\ column = NullText
    /\ jarg \in JsonValues
    /\ jhist = "unset"
    /\ ret = NoRet

NextEncoded ==
    \/ SetEncoded
    \/ \E t \in RawTexts : StoreRaw(t)
    \/ GetEncoded

SpecEncoded == InitEncoded /\ [][NextEncoded]_vars

\* average_rating of a Recipe object: its rating fields as stored (integers)
\* or, before the INSERT has applied the defaults, None
RatingFields == {NullInt} \cup {IntVal(n) : n \in 0..MaxSum}
CountFields == {NullInt} \cup {IntVal(n) : n \in 0..MaxCount}

InitAverage ==
    /\ InitStore /\ InitJson /\ view = NoView
    /\ robj \in [rating_sum : RatingFields, rating_count : CountFields]
    /\ ravg = NoRet

NextAverage == ReadAverage

SpecAverage == InitAverage /\ [][NextAverage]_vars

\* projections of a store that holds MaxUsers users, a recipe, a review of it
\* and a swap for it; user 1's dietary_preferences are unset, set, or text that
\* no setter wrote
DietTexts == {NullText, set_encoded(JList(<<JStr(<<"a">>)>>)), TextVal(<<"[">>)}

InitView ==
    /\ \E diet \in DietTexts :
           users = {UserRow(i, IF i = 1 THEN diet ELSE NullText) : i \in 1..MaxUsers}
    /\ \E a \in 1..MaxUsers : recipes = {RecipeRow(1, a)}
    /\ \E w \in 1..MaxUsers : reviews = {ReviewRow(1, 1, w, 4)}
    /\ \E q \in 1..MaxUsers, o \in 1..MaxUsers : swaps = {RecipeSwapRow(1, q, o, 1)}
    /\ nextId = [user |-> MaxUsers + 1, recipe |-> 2, review |-> 2, swap |-> 2]
    /\ lastOp = Op("create_swap", "none", 0, 0)
    /\ InitJson /\ InitRating /\ view = NoView

NextView ==
    \/ \E u \in users, e \in BOOLEAN : UserView(u, e)
    \/ \E r \in recipes, a \in BOOLEAN : RecipeView(r, a)
    \/ \E v \in reviews, w \in BOOLEAN : ReviewView(v, w)
    \/ \E s \in swaps, p \in BOOLEAN, c \in BOOLEAN : RecipeSwapView(s, p, c)

SpecView == InitView /\ [][NextView]_vars

(***************************************************************************)
(* Properties.                                                             *)
(***************************************************************************)
LegalTransitions == {<<"pending", "accepted">>, <<"pending", "declined">>,
                     <<"accepted", "completed">>}

\* C1: the only status changes of a swap that succeed are pending->accepted,
\* pending->declined and accepted->completed; any other requested change
\* leaves the status as it was.
C1_OnlyLegalTransitions ==
    [][\A s \in swaps : \A t \in swaps' :
          (s.id = t.id /\ s.status # t.status)
              => <<s.status, t.status>> \in LegalTransitions]_vars

\* C2: completed_at of a stored swap is set if and only if its status is
\* completed.
C2_CompletedAtIffCompleted ==
    \A s \in swaps : (~ s.completed_at.null) <=> (s.status = "completed")

\* C3: the store holds at most one review for each (recipe, reviewer) pair,
\* and creating a review for a pair that has one fails (IntegrityError, the
\* uniqueness violation) and leaves the stored reviews as they were.
C3_OneReviewPerPair ==
    [][/\ \A v \in reviews' : \A w \in reviews' :
             (v.recipe_id = w.recipe_id /\ v.reviewer_id = w.reviewer_id) => v = w
       /\ (/\ lastOp'.op = "create_review"
           /\ \E v \in reviews : v.recipe_id = lastOp'.x /\ v.reviewer_id = lastOp'.y)
              => (lastOp'.err = "IntegrityError" /\ reviews' = reviews)]_vars

\* a second review for a pair was tried and refused, the first one still stored
C3_DuplicateRefused ==
    /\ lastOp.op = "create_review"
    /\ lastOp.err = "IntegrityError"
    /\ \E v \in reviews : v.recipe_id = lastOp.x /\ v.reviewer_id = lastOp.y
    /\ Cardinality(reviews) = 2

\* C4: deleting a user succeeds, removes the user, every recipe the user
\* authored and every review the user wrote, and removes exactly the swaps
\* whose requested recipe is removed: a swap for a surviving recipe stays.
C4_DeleteUserCascades ==
    [][lastOp'.op = "delete_user" =>
          LET uid == lastOp'.x
              gone == {r.id : r \in User_recipes(uid)}
          IN /\ lastOp'.err = "none"
             /\ users' = {u \in users : u.id # uid}
             /\ recipes' = {r \in recipes : r.author_id # uid}
             /\ \A v \in reviews' : v.reviewer_id # uid
             /\ swaps' = {s \in swaps : s.recipe_id \notin gone}]_vars

\* a rating field with its declared default in place of None
Defaulted(x) == IF x.null THEN 0 ELSE x.n

\* C5: reading average_rating returns 0 when rating_count is 0 and otherwise
\* rating_sum / rating_count rounded to one decimal place (a tenth nearest
\* the quotient), also on a Recipe object whose rating fields are not yet set.
C5_AverageRating ==
    ravg # NoRet =>
        /\ ravg.err = "none"
        /\ LET c == Defaulted(robj.rating_count)
               d == 10 * Defaulted(robj.rating_sum) - ravg.val * c
           IN IF c = 0 THEN ravg.val = 0
              ELSE 2 * d <= c /\ 2 * (0 - d) <= c

RECURSIVE SumRatings(_)
SumRatings(S) ==
    IF S = {} THEN 0
    ELSE LET v == CHOOSE x \in S : TRUE IN v.rating + SumRatings(S \ {v})

\* C6: a recipe that has reviews has as average_rating the mean of their
\* ratings (rounded to one decimal place).
C6_AverageIsMeanOfReviews ==
    \A r \in recipes :
        Recipe_reviews(r.id) # {} =>
            average_rating(r) = Ok(round1(SumRatings(Recipe_reviews(r.id)),
                                          Cardinality(Recipe_reviews(r.id))))

EmbeddedUserKeys == {"author", "reviewer", "requester", "owner"}

\* C7: a dict User.to_dict returns has no password_hash key and has an email
\* key exactly when include_email is true; the user views embedded in the
\* Recipe, Review and RecipeSwap views have neither key.
C7_UserViewKeys ==
    view.out.err = "none" =>
        /\ view.call[1] = "user" =>
              /\ "password_hash" \notin DOMAIN view.out.val
              /\ ("email" \in DOMAIN view.out.val) <=> view.call[3]
        /\ \A k \in EmbeddedUserKeys \cap DOMAIN view.out.val :
              /\ "password_hash" \notin DOMAIN view.out.val[k]
              /\ "email" \notin DOMAIN view.out.val[k]

\* a swap's view was produced with both participants embedded
C7_SwapViewEmbedsUsers ==
    /\ view.call[1] = "swap"
    /\ view.out.err = "none"
    /\ {"requester", "owner", "recipe"} \subseteq DOMAIN view.out.val

C9_MalformedReadsEmpty ==
    (ret # NoRet /\ ~ column.null /\ column.s \in MalformedTexts)
        => ret = Ok(EmptyOf(field))

\* C10: every stored review has a rating between 1 and 5.
C10_RatingInRange == \A v \in reviews : v.rating \in 1..5

====
